---- MODULE Spec2Model ----
(***************************************************************************)
(* faster_whisper_server/main.py: the bounded model cache (load_model) and *)
(* the streaming session (transcribe_stream with its audio_receiver task). *)
(***************************************************************************)
EXTENDS Integers, Sequences, FiniteSets, TLC

(* ---------------------------------------------------------------- bounds *)
\* config.max_models
max_models == 2
\* engine loads explored by one run (caps the handle counter)
MaxLoads == 3

\* config.inactivity_window_seconds (W), in seconds
inactivity_window_seconds == 2
\* config.max_inactivity_seconds, in seconds
max_inactivity_seconds == 1
\* config.max_no_data_seconds, in clock ticks of the receive wait
max_no_data_seconds == 2
\* seconds of audio one session receives at most
MaxDuration == 3
\* updates the driver yields at most in one session
MaxUpdates == 2

\* config.SAMPLES_PER_SECOND (R): the fixed sample rate, scaled down to two
\* samples per second
SAMPLES_PER_SECOND == 2

MaxSamples == MaxDuration * SAMPLES_PER_SECOND
WindowSamples == inactivity_window_seconds * SAMPLES_PER_SECOND

ValidNames == {"tiny", "base", "small", "medium"}
InvalidNames == {"bogus"}
ModelNames == ValidNames \cup InvalidNames

\* callers of load_model: the streaming session and two batch endpoint workers
WsThread == "ws"
HttpThreads == {"h1", "h2"}
Threads == {WsThread} \cup HttpThreads

None == "none"

VARIABLES
  loaded_models,   \* OrderedDict: sequence of [name, handle] in insertion order
  nextHandle,      \* WhisperModel instances built so far
  lmPc,            \* per caller: position inside load_model
  lmName,          \* per caller: the model_name argument
  lmOldest,        \* per caller: the local oldest_model_name
  lmWhisper,       \* per caller: the local whisper
  lmResult,        \* per caller: returned handle, or the exception raised
  lmBefore,        \* per caller: the cache and the load count when the call began
  rehit,           \* names requested again while resident, since their last insertion
  \* --- transcribe_stream (one session)
  mainPc,          \* position of the transcribe_stream coroutine
  model,           \* query parameter model
  response_format, \* query parameter response_format
  client_state,    \* ws.client_state
  propagated,      \* exception that left transcribe_stream, if any
  mainCancelReq,   \* TaskGroup asked to cancel the parent task
  bodyExc,         \* exception that ended the TaskGroup body, if any
  emitExit,        \* how the async-for loop over the driver ended
  tgErrors,        \* TaskGroup._errors
  \* --- AudioStream
  samples,         \* number of samples accumulated
  closed,          \* audio_stream.closed
  closeCount,      \* calls of audio_stream.close()
  \* --- audio_receiver task
  rcvPc,           \* "none", "waiting" (in wait_for) or "done"
  rcvOutcome,      \* why the receiver ended
  rcvCancelReq,    \* TaskGroup asked to cancel the receiver task
  waited,          \* ticks elapsed in the current wait_for
  vadCalls,        \* calls of get_speech_timestamps
  timestamps,      \* the last result of get_speech_timestamps
  \* --- audio_transcriber and the emit loop
  unread,          \* the buffer holds audio no inference cycle has taken yet
  produced,        \* updates yielded by the driver
  sendCalls,       \* ws.send_text / ws.send_json calls issued
  pending,         \* message of the send in flight
  sent,            \* messages whose send completed
  \* --- teardown and logs
  handshakeSeen,   \* ws.client_state read at line 354
  closeHandshakes, \* ws.close(code=1000) calls
  infoLog,         \* messages logged at info level
  errLog,          \* messages logged at error level
  raisedExc,       \* exception types raised anywhere in the session
  discDuringInfer  \* the disconnect arrived while an inference cycle was in flight

cacheVars == <<loaded_models, nextHandle, lmPc, lmName, lmOldest, lmWhisper, lmResult,
               lmBefore, rehit>>

mainVars == <<mainPc, model, response_format, propagated, mainCancelReq, bodyExc,
              emitExit, tgErrors>>

streamVars == <<samples, closed, closeCount>>

rcvVars == <<rcvPc, rcvOutcome, rcvCancelReq, waited, vadCalls, timestamps>>

emitVars == <<unread, produced, sendCalls, pending, sent>>

endVars == <<handshakeSeen, closeHandshakes>>

logVars == <<infoLog, errLog, raisedExc, discDuringInfer>>

sessionVars == <<mainVars, client_state, streamVars, rcvVars, emitVars, endVars, logVars>>

vars == <<cacheVars, sessionVars>>

(* ------------------------------------------------------- OrderedDict ops *)
Keys(d) == {d[i].name : i \in 1..Len(d)}

Contains(d, k) == k \in Keys(d)

GetItem(d, k) == (CHOOSE i \in 1..Len(d) : d[i].name = k)

FirstKey_Last(d) == d[Len(d)].name

\* least recently used: the first key not requested again since its insertion
FirstKey_Lru(d) ==
  IF \E i \in 1..Len(d) : d[i].name \notin rehit
    THEN d[CHOOSE i \in 1..Len(d) :
             /\ d[i].name \notin rehit
             /\ \A j \in 1..(i - 1) : d[j].name \in rehit].name
    ELSE d[1].name

\* next(iter(d)): the first key in insertion order
FirstKey(d) == d[1].name

\* del d[k]
DelItem(d, k) == SelectSeq(d, LAMBDA e : e.name # k)

\* d[k] = v: a new key goes last, an existing key keeps its position
SetItem(d, k, v) ==
  IF Contains(d, k)
    THEN [i \in 1..Len(d) |-> IF d[i].name = k THEN [name |-> k, handle |-> v] ELSE d[i]]
    ELSE Append(d, [name |-> k, handle |-> v])

(* ------------------------------------------------------------ load_model *)
\* WhisperModel(model_name, ...) raises when the model name is not valid
EngineAccepts(name) == name \in ValidNames

NeedsEvict_Strict(n) == n > max_models

\* line 55
NeedsEvict(n) == n >= max_models

NoResult == [handle |-> 0, exc |-> None]

Returned(h) == [handle |-> h, exc |-> None]

Raised(e) == [handle |-> 0, exc |-> e]

\* a caller enters load_model(name)
LmCall(t, name) ==
  /\ lmPc[t] = "idle"
  /\ nextHandle < MaxLoads
  /\ lmPc' = [lmPc EXCEPT ![t] = "l52"]
  /\ lmName' = [lmName EXCEPT ![t] = name]
  /\ lmOldest' = [lmOldest EXCEPT ![t] = None]
  /\ lmWhisper' = [lmWhisper EXCEPT ![t] = 0]
  /\ lmResult' = [lmResult EXCEPT ![t] = NoResult]
  /\ lmBefore' = [lmBefore EXCEPT ![t] = [cache |-> loaded_models, loads |-> nextHandle]]
  /\ UNCHANGED <<loaded_models, nextHandle, rehit>>

IsResident_Never(d, name) == FALSE

\* line 52: model_name in loaded_models
IsResident(d, name) == Contains(d, name)

\* lines 52-54: resident -> return the stored handle
LmResident(t) ==
  /\ lmPc[t] = "l52"
  /\ IF IsResident(loaded_models, lmName[t])
       THEN /\ lmResult' = [lmResult EXCEPT
                 ![t] = Returned(loaded_models[GetItem(loaded_models, lmName[t])].handle)]
            /\ lmPc' = [lmPc EXCEPT ![t] = "ret"]
            /\ rehit' = rehit \cup {lmName[t]}
       ELSE /\ lmPc' = [lmPc EXCEPT ![t] = "l55"]
            /\ UNCHANGED <<lmResult, rehit>>
  /\ UNCHANGED <<loaded_models, nextHandle, lmName, lmOldest, lmWhisper, lmBefore>>

\* line 55: the capacity check
LmCapacity(t) ==
  /\ lmPc[t] = "l55"
  /\ lmPc' = [lmPc EXCEPT ![t] =
        IF NeedsEvict(Len(loaded_models)) THEN "l56" ELSE "l64"]
  /\ UNCHANGED <<loaded_models, nextHandle, lmName, lmOldest, lmWhisper, lmResult,
                 lmBefore, rehit>>

\* line 56: oldest_model_name = next(iter(loaded_models))
LmOldest(t) ==
  /\ lmPc[t] = "l56"
  /\ IF Len(loaded_models) = 0
       THEN /\ lmResult' = [lmResult EXCEPT ![t] = Raised("StopIteration")]
            /\ lmPc' = [lmPc EXCEPT ![t] = "raised"]
            /\ UNCHANGED lmOldest
       ELSE /\ lmOldest' = [lmOldest EXCEPT ![t] = FirstKey(loaded_models)]
            /\ lmPc' = [lmPc EXCEPT ![t] = "l60"]
            /\ UNCHANGED lmResult
  /\ UNCHANGED <<loaded_models, nextHandle, lmName, lmWhisper, lmBefore, rehit>>

\* line 60: del loaded_models[oldest_model_name]
LmEvict(t) ==
  /\ lmPc[t] = "l60"
  /\ IF Contains(loaded_models, lmOldest[t])
       THEN /\ loaded_models' = DelItem(loaded_models, lmOldest[t])
            /\ lmPc' = [lmPc EXCEPT ![t] = "l64"]
            /\ UNCHANGED lmResult
       ELSE /\ lmResult' = [lmResult EXCEPT ![t] = Raised("KeyError")]
            /\ lmPc' = [lmPc EXCEPT ![t] = "raised"]
            /\ UNCHANGED loaded_models
  /\ UNCHANGED <<nextHandle, lmName, lmOldest, lmWhisper, lmBefore, rehit>>

\* lines 63-68: whisper = WhisperModel(model_name, ...)
LmEngine(t) ==
  /\ lmPc[t] = "l64"
  /\ IF EngineAccepts(lmName[t])
       THEN /\ nextHandle' = nextHandle + 1
            /\ lmWhisper' = [lmWhisper EXCEPT ![t] = nextHandle + 1]
            /\ lmPc' = [lmPc EXCEPT ![t] = "l72"]
            /\ UNCHANGED lmResult
       ELSE /\ lmResult' = [lmResult EXCEPT ![t] = Raised("ModelLoadError")]
            /\ lmPc' = [lmPc EXCEPT ![t] = "raised"]
            /\ UNCHANGED <<nextHandle, lmWhisper>>
  /\ UNCHANGED <<loaded_models, lmName, lmOldest, lmBefore, rehit>>

\* lines 72-73: loaded_models[model_name] = whisper; return whisper
LmInsert(t) ==
  /\ lmPc[t] = "l72"
  /\ loaded_models' = SetItem(loaded_models, lmName[t], lmWhisper[t])
  /\ lmResult' = [lmResult EXCEPT ![t] = Returned(lmWhisper[t])]
  /\ lmPc' = [lmPc EXCEPT ![t] = "ret"]
  /\ rehit' = rehit \ {lmName[t]}
  /\ UNCHANGED <<nextHandle, lmName, lmOldest, lmWhisper, lmBefore>>

\* any step inside load_model
LmStep(t) ==
  \/ LmResident(t)
  \/ LmCapacity(t)
  \/ LmOldest(t)
  \/ LmEvict(t)
  \/ LmEngine(t)
  \/ LmInsert(t)

LmReturned_OrRaised(t) == lmPc[t] \in {"ret", "raised"}

\* the call of caller t has returned a handle (lines 54 and 73)
LmReturned(t) == lmPc[t] = "ret"

\* translate_file / transcribe_file, lines 203 and 244: whisper = load_model(model).
\* The cache is reached one call at a time here.
HttpCall(t, name) ==
  /\ \A u \in Threads : lmPc[u] = "idle"
  /\ LmCall(t, name)
  /\ UNCHANGED sessionVars

HttpLoad(t) == LmStep(t) /\ UNCHANGED sessionVars

\* the batch endpoint takes the handle (or the exception) and ends the request
HttpDone(t) ==
  /\ lmPc[t] \in {"ret", "raised"}
  /\ lmPc' = [lmPc EXCEPT ![t] = "idle"]
  /\ UNCHANGED <<loaded_models, nextHandle, lmName, lmOldest, lmWhisper, lmResult,
                 lmBefore, rehit>>
  /\ UNCHANGED sessionVars

(* ----------------------------------------------------------- AudioStream *)
\* audio_stream.duration, in samples (duration * R)
Duration(n) == n

\* audio_stream.extend(audio_samples): refused once closed
ExtendAllowed(c) == ~c

\* audio_stream.close(): the value of closed afterwards (monotonic false -> true)
ClosedAfterClose(c) == TRUE

(* ------------------------------------------------- inactivity detection *)
\* results get_speech_timestamps can give on a W-second window: no interval,
\* one interval, or two intervals; start and end are sample indices
Interval(s, e) == [start |-> s, end |-> e]

VadResults ==
  {<<>>}
    \cup {<<Interval(e - 1, e)>> : e \in 1..WindowSamples}
    \cup {<<Interval(0, 1), Interval(e - 1, e)>> : e \in 3..WindowSamples}

NeedsVad_Strict(n) == Duration(n) - WindowSamples > 0

\* line 272: audio_stream.duration - config.inactivity_window_seconds >= 0
NeedsVad(n) == Duration(n) - WindowSamples >= 0

IsInactive_Strict(ts) ==
  IF Len(ts) = 0
    THEN TRUE
    ELSE inactivity_window_seconds * SAMPLES_PER_SECOND - ts[Len(ts)].end
           > max_inactivity_seconds * SAMPLES_PER_SECOND

\* lines 280-290: len(timestamps) == 0, or
\* W - timestamps[-1]["end"] / SAMPLES_PER_SECOND >= max_inactivity_seconds
\* (both sides multiplied by SAMPLES_PER_SECOND)
IsInactive(ts) ==
  IF Len(ts) = 0
    THEN TRUE
    ELSE inactivity_window_seconds * SAMPLES_PER_SECOND - ts[Len(ts)].end
           >= max_inactivity_seconds * SAMPLES_PER_SECOND

(* -------------------------------------------------------- audio_receiver *)
ReceiverCatches_NoTimeout(e) == e \in {"WebSocketDisconnect"}

\* lines 295 and 299: the except clauses of audio_receiver
ReceiverCatches(e) == e \in {"TimeoutError", "WebSocketDisconnect"}

\* asyncio.CancelledError is a BaseException, every other one here an Exception
IsException(e) == e # "CancelledError"

BodyRunning == mainPc \in {"body_wait", "inferring", "sending"}

\* The receiver leaves its loop: by break (exc = None) or by an exception.
\* Caught exceptions and break reach line 301, audio_stream.close(); any other
\* exception ends the task, and TaskGroup._on_task_done records it and cancels
\* the parent task.
RcvFinish(exc, outcome, msg) ==
  /\ rcvPc' = "done"
  /\ rcvOutcome' = outcome
  /\ raisedExc' = IF exc = None THEN raisedExc ELSE raisedExc \cup {exc}
  /\ IF exc = None \/ ReceiverCatches(exc)
       THEN /\ infoLog' = infoLog \cup {msg}
            /\ closed' = ClosedAfterClose(closed)
            /\ closeCount' = closeCount + 1
            /\ UNCHANGED <<tgErrors, mainCancelReq>>
       ELSE /\ UNCHANGED <<infoLog, closed, closeCount>>
            /\ IF IsException(exc)
                 THEN /\ tgErrors' = tgErrors \cup {exc}
                      /\ mainCancelReq' = TRUE
                 ELSE UNCHANGED <<tgErrors, mainCancelReq>>

RcvWaiting == rcvPc = "waiting" /\ ~rcvCancelReq

\* time passes while wait_for(ws.receive_bytes(), timeout) is pending
Tick ==
  /\ RcvWaiting
  /\ waited < max_no_data_seconds
  /\ waited' = waited + 1
  /\ UNCHANGED <<cacheVars, mainVars, client_state, streamVars, emitVars, endVars, logVars,
                 rcvPc, rcvOutcome, rcvCancelReq, vadCalls, timestamps>>

\* lines 266-294: a chunk of n samples arrives before the deadline; decodable
\* says whether audio_samples_from_file accepts it; ts is what the VAD returns
\* if it is invoked
RcvChunk(n, decodable, ts) ==
  /\ RcvWaiting
  /\ waited < max_no_data_seconds
  /\ samples + n <= MaxSamples
  /\ IF ~decodable
       THEN /\ RcvFinish("DecodeError", "error", None)
            /\ UNCHANGED <<samples, unread, vadCalls, timestamps, waited>>
       ELSE IF ~ExtendAllowed(closed)
         THEN /\ RcvFinish("ClosedBufferError", "error", None)
              /\ UNCHANGED <<samples, unread, vadCalls, timestamps, waited>>
         ELSE /\ samples' = samples + n
              /\ unread' = TRUE
              /\ IF NeedsVad(samples + n)
                   THEN /\ vadCalls' = vadCalls + 1
                        /\ timestamps' = ts
                        /\ IF IsInactive(ts)
                             THEN /\ RcvFinish(None, "silence",
                                        IF Len(ts) = 0 THEN "No speech detected"
                                                       ELSE "Not enough speech")
                                  /\ UNCHANGED waited
                             ELSE /\ waited' = 0
                                  /\ UNCHANGED <<rcvPc, rcvOutcome, raisedExc, infoLog,
                                                 closed, closeCount, tgErrors, mainCancelReq>>
                   ELSE /\ ts = <<>>
                        /\ waited' = 0
                        /\ UNCHANGED <<vadCalls, timestamps, rcvPc, rcvOutcome, raisedExc, infoLog,
                                       closed, closeCount, tgErrors, mainCancelReq>>
  /\ UNCHANGED <<cacheVars, client_state, endVars, errLog, discDuringInfer,
                 mainPc, model, response_format, propagated, bodyExc, emitExit, rcvCancelReq,
                 produced, sendCalls, pending, sent>>

DeadlineReached_Never(w) == FALSE

\* lines 266-268: asyncio.wait_for(..., timeout=max_no_data_seconds) expires
DeadlineReached(w) == w = max_no_data_seconds

\* lines 266-268 and 295-298: the wait reaches max_no_data_seconds
RcvTimeout ==
  /\ RcvWaiting
  /\ DeadlineReached(waited)
  /\ RcvFinish("TimeoutError", "timeout", "No data received")
  /\ UNCHANGED <<cacheVars, client_state, emitVars, endVars, errLog, discDuringInfer,
                 mainPc, model, response_format, propagated, bodyExc, emitExit, rcvCancelReq,
                 samples, vadCalls, timestamps, waited>>

\* lines 266 and 299-300: ws.receive_bytes() gets the client's disconnect
\* message: the socket turns DISCONNECTED and WebSocketDisconnect is raised
RcvDisconnect ==
  /\ RcvWaiting
  /\ waited < max_no_data_seconds
  /\ client_state' = "DISCONNECTED"
  /\ discDuringInfer' = (mainPc = "inferring")
  /\ RcvFinish("WebSocketDisconnect", "disconnect", "Client disconnected")
  /\ UNCHANGED <<cacheVars, emitVars, endVars, errLog,
                 mainPc, model, response_format, propagated, bodyExc, emitExit, rcvCancelReq,
                 samples, vadCalls, timestamps, waited>>

\* the TaskGroup cancelled the receiver: CancelledError is thrown into the
\* pending wait_for, no except clause matches, line 301 is not reached
RcvCancelled ==
  /\ rcvPc = "waiting"
  /\ rcvCancelReq
  /\ RcvFinish("CancelledError", "cancelled", None)
  /\ UNCHANGED <<cacheVars, client_state, emitVars, endVars, errLog, discDuringInfer,
                 mainPc, model, response_format, propagated, bodyExc, emitExit, rcvCancelReq,
                 samples, vadCalls, timestamps, waited>>

(* ----------------------------------------------------- transcribe_stream *)
ResponseFormats == {"text", "json", "verbose_json"}

NoMessage == [shape |-> None, update |-> 0]

MessageFor_DropJson(fmt, u) ==
  IF fmt = "text" THEN [shape |-> "text", update |-> u]
  ELSE IF fmt = "verbose_json" THEN [shape |-> "verbose_json", update |-> u]
  ELSE NoMessage

\* lines 332-345: the message sent for update u under response_format
MessageFor(fmt, u) ==
  IF fmt = "text" THEN [shape |-> "text", update |-> u]
  ELSE IF fmt = "json" THEN [shape |-> "json", update |-> u]
  ELSE IF fmt = "verbose_json" THEN [shape |-> "verbose_json", update |-> u]
  ELSE NoMessage

EmitStops_Never(cs) == FALSE

\* line 329: if ws.client_state == WebSocketState.DISCONNECTED: break
EmitStops(cs) == cs = "DISCONNECTED"

\* line 325, leaving `async with asyncio.TaskGroup()`: the exceptions of the
\* child tasks and of the body (CancelledError apart) leave as one
\* ExceptionGroup; without any the body's own outcome stands
TaskGroupExit(exc, errs) ==
  LET all == errs \cup (IF exc \in {None, "CancelledError"} THEN {} ELSE {exc})
  IN  IF all # {} THEN "ExceptionGroup" ELSE exc

ExceptClause_Unwrapped(exc) ==
  IF exc = None THEN "none"
  ELSE IF exc = "WebSocketDisconnect" THEN "info"
  ELSE "propagate"

\* lines 347-350: except WebSocketDisconnect -> info; except Exception -> error;
\* anything else leaves transcribe_stream
ExceptClause(exc) ==
  IF exc = None THEN "none"
  ELSE IF exc = "WebSocketDisconnect" THEN "info"
  ELSE IF IsException(exc) THEN "error"
  ELSE "propagate"

TaskGroupJoined_NoWait(rp) == TRUE

\* line 325: TaskGroup.__aexit__ returns only when the receiver task is done
TaskGroupJoined(rp) == rp = "done"

HandshakeExcept_Reraise(exc) == "propagate"

\* lines 358-359: except Exception as close_exception -> logged at error level
HandshakeExcept(exc) == IF IsException(exc) THEN "error" ELSE "propagate"

FinallyCloses_Always(c) == TRUE

\* line 352: if not audio_stream.closed
FinallyCloses(c) == ~c

HandshakeNeeded_Always(cs) == TRUE

\* line 354: if ws.client_state != WebSocketState.DISCONNECTED
HandshakeNeeded(cs) == cs # "DISCONNECTED"

\* line 314: await ws.accept()
Accept ==
  /\ mainPc = "start"
  /\ mainPc' = "accepted"
  /\ client_state' = "CONNECTED"
  /\ UNCHANGED <<cacheVars, streamVars, rcvVars, emitVars, endVars, logVars,
                 model, response_format, propagated, mainCancelReq, bodyExc, emitExit,
                 tgErrors>>

\* line 321: whisper = load_model(model)
WsLoadCall ==
  /\ mainPc = "accepted"
  /\ LmCall(WsThread, model)
  /\ mainPc' = "loading"
  /\ UNCHANGED <<client_state, streamVars, rcvVars, emitVars, endVars, logVars,
                 model, response_format, propagated, mainCancelReq, bodyExc, emitExit,
                 tgErrors>>

WsLoad ==
  /\ mainPc = "loading"
  /\ LmStep(WsThread)
  /\ UNCHANGED sessionVars

\* lines 321-327: load_model returned; the stream is created, the TaskGroup
\* entered, the receiver task created, and the body awaits the driver
WsLoaded ==
  /\ mainPc = "loading"
  /\ LmReturned(WsThread)
  /\ lmPc' = [lmPc EXCEPT ![WsThread] = "idle"]
  /\ mainPc' = "body_wait"
  /\ rcvPc' = "waiting"
  /\ UNCHANGED <<loaded_models, nextHandle, lmName, lmOldest, lmWhisper, lmResult,
                 lmBefore, rehit>>
  /\ UNCHANGED <<client_state, streamVars, emitVars, endVars, logVars,
                 model, response_format, propagated, mainCancelReq, bodyExc, emitExit,
                 tgErrors, rcvOutcome, rcvCancelReq, waited, vadCalls, timestamps>>

\* line 321: load_model raised; nothing in transcribe_stream catches it
WsLoadFailed ==
  /\ mainPc = "loading"
  /\ lmPc[WsThread] = "raised"
  /\ lmPc' = [lmPc EXCEPT ![WsThread] = "idle"]
  /\ mainPc' = "raised"
  /\ propagated' = lmResult[WsThread].exc
  /\ raisedExc' = raisedExc \cup {lmResult[WsThread].exc}
  /\ UNCHANGED <<loaded_models, nextHandle, lmName, lmOldest, lmWhisper, lmResult,
                 lmBefore, rehit>>
  /\ UNCHANGED <<client_state, streamVars, rcvVars, emitVars, endVars,
                 model, response_format, mainCancelReq, bodyExc, emitExit, tgErrors,
                 infoLog, errLog, discDuringInfer>>

(* ------------------------------------- audio_transcriber and the emit loop *)
BodyAt(pc) == mainPc = pc /\ ~mainCancelReq

\* the body of the TaskGroup ends with exception exc: TaskGroup.__aexit__
\* cancels the receiver task if it is still running, then waits for it
BodyRaise(exc, how) ==
  /\ bodyExc' = exc
  /\ emitExit' = how
  /\ raisedExc' = raisedExc \cup {exc}
  /\ rcvCancelReq' = (rcvCancelReq \/ rcvPc = "waiting")
  /\ mainPc' = "tg_exit"

\* the driver has audio it has not processed: it takes a snapshot of the
\* buffer and starts an inference cycle
DriverInferStart ==
  /\ BodyAt("body_wait")
  /\ unread
  /\ unread' = FALSE
  /\ mainPc' = "inferring"
  /\ UNCHANGED <<cacheVars, client_state, streamVars, rcvVars, endVars, logVars,
                 model, response_format, propagated, mainCancelReq, bodyExc, emitExit,
                 tgErrors, produced, sendCalls, pending, sent>>

\* the buffer is closed and no audio remains: the sequence ends, line 327
\* leaves the loop and the body of the TaskGroup ends
DriverEnd ==
  /\ BodyAt("body_wait")
  /\ closed
  /\ ~unread
  /\ emitExit' = "exhausted"
  /\ mainPc' = "tg_exit"
  /\ UNCHANGED <<cacheVars, client_state, streamVars, rcvVars, emitVars, endVars, logVars,
                 model, response_format, propagated, mainCancelReq, bodyExc, tgErrors>>

\* lines 327-345: the inference cycle yields an update; the loop body checks
\* the connection and issues the send of the update's message
InferYield ==
  /\ BodyAt("inferring")
  /\ produced < MaxUpdates
  /\ produced' = produced + 1
  /\ IF EmitStops(client_state)
       THEN /\ emitExit' = "break"
            /\ mainPc' = "tg_exit"
            /\ UNCHANGED <<sendCalls, pending>>
       ELSE IF MessageFor(response_format, produced + 1) = NoMessage
         THEN /\ mainPc' = "body_wait"
              /\ UNCHANGED <<emitExit, sendCalls, pending>>
         ELSE /\ sendCalls' = sendCalls + 1
              /\ pending' = MessageFor(response_format, produced + 1)
              /\ mainPc' = "sending"
              /\ UNCHANGED emitExit
  /\ UNCHANGED <<cacheVars, client_state, streamVars, rcvVars, endVars, logVars,
                 model, response_format, propagated, mainCancelReq, bodyExc, tgErrors,
                 unread, sent>>

\* the inference cycle ends without a new update
InferNoUpdate ==
  /\ BodyAt("inferring")
  /\ mainPc' = "body_wait"
  /\ UNCHANGED <<cacheVars, client_state, streamVars, rcvVars, emitVars, endVars, logVars,
                 model, response_format, propagated, mainCancelReq, bodyExc, emitExit,
                 tgErrors>>

\* the inference engine fails: the exception leaves the driver and the body
InferFail ==
  /\ BodyAt("inferring")
  /\ BodyRaise("InferenceError", "raised")
  /\ UNCHANGED <<cacheVars, client_state, streamVars, emitVars, endVars,
                 model, response_format, propagated, mainCancelReq, tgErrors,
                 infoLog, errLog, discDuringInfer,
                 rcvPc, rcvOutcome, waited, vadCalls, timestamps>>

\* lines 333-345: the send completes
SendOk ==
  /\ BodyAt("sending")
  /\ sent' = Append(sent, pending)
  /\ mainPc' = "body_wait"
  /\ UNCHANGED <<cacheVars, client_state, streamVars, rcvVars, endVars, logVars,
                 model, response_format, propagated, mainCancelReq, bodyExc, emitExit,
                 tgErrors, unread, produced, sendCalls, pending>>

\* lines 333-345: the connection is gone and the send raises WebSocketDisconnect
SendDisconnect ==
  /\ BodyAt("sending")
  /\ BodyRaise("WebSocketDisconnect", "raised")
  /\ UNCHANGED <<cacheVars, client_state, streamVars, emitVars, endVars,
                 model, response_format, propagated, mainCancelReq, tgErrors,
                 infoLog, errLog, discDuringInfer,
                 rcvPc, rcvOutcome, waited, vadCalls, timestamps>>

\* the receiver task failed and the TaskGroup cancelled the parent task:
\* CancelledError is thrown into the await the body is suspended in
BodyCancelled ==
  /\ BodyRunning
  /\ mainCancelReq
  /\ BodyRaise("CancelledError", "cancelled")
  /\ UNCHANGED <<cacheVars, client_state, streamVars, emitVars, endVars,
                 model, response_format, propagated, mainCancelReq, tgErrors,
                 infoLog, errLog, discDuringInfer,
                 rcvPc, rcvOutcome, waited, vadCalls, timestamps>>

(* ---------------------------------------------------------------- teardown *)
\* lines 325 and 347-357: the receiver task has ended, so the TaskGroup is
\* left; the except clauses handle what it raises; the finally block closes the
\* stream if needed and starts the close handshake if the socket allows it
TgExit ==
  /\ mainPc = "tg_exit"
  /\ TaskGroupJoined(rcvPc)
  /\ LET exc == TaskGroupExit(bodyExc, tgErrors)
         level == ExceptClause(exc)
     IN  /\ errLog' = IF level = "error" THEN errLog \cup {"An error occurred"} ELSE errLog
         /\ propagated' = IF level = "propagate" THEN exc ELSE None
         /\ IF FinallyCloses(closed)
              THEN closed' = ClosedAfterClose(closed) /\ closeCount' = closeCount + 1
              ELSE UNCHANGED <<closed, closeCount>>
         /\ handshakeSeen' = client_state
         /\ IF HandshakeNeeded(client_state)
              THEN /\ infoLog' = (IF level = "info" THEN infoLog \cup {"Client disconnected"}
                                                   ELSE infoLog)
                                   \cup {"Initiating close handshake"}
                   /\ closeHandshakes' = closeHandshakes + 1
                   /\ mainPc' = "closing"
              ELSE /\ infoLog' = (IF level = "info" THEN infoLog \cup {"Client disconnected"}
                                                   ELSE infoLog)
                   /\ mainPc' = "done"
                   /\ UNCHANGED closeHandshakes
  /\ UNCHANGED <<cacheVars, client_state, rcvVars, emitVars, discDuringInfer, samples,
                 model, response_format, mainCancelReq, bodyExc, emitExit, tgErrors,
                 raisedExc>>

\* line 357: the close handshake completes
CloseOk ==
  /\ mainPc = "closing"
  /\ mainPc' = "done"
  /\ UNCHANGED <<cacheVars, client_state, streamVars, rcvVars, emitVars, endVars, logVars,
                 model, response_format, propagated, mainCancelReq, bodyExc, emitExit,
                 tgErrors>>

\* lines 357-359: ws.close raises; the exception is logged and dropped
CloseFail ==
  /\ mainPc = "closing"
  /\ raisedExc' = raisedExc \cup {"CloseHandshakeError"}
  /\ IF HandshakeExcept("CloseHandshakeError") = "error"
       THEN /\ errLog' = errLog \cup {"Error during close handshake"}
            /\ mainPc' = "done"
            /\ UNCHANGED propagated
       ELSE /\ propagated' = "CloseHandshakeError"
            /\ mainPc' = "raised"
            /\ UNCHANGED errLog
  /\ UNCHANGED <<cacheVars, client_state, streamVars, rcvVars, emitVars, endVars,
                 model, response_format, mainCancelReq, bodyExc, emitExit,
                 tgErrors, infoLog, discDuringInfer>>

(* ----------------------------------------------------------- specifications *)
IdleCallers ==
  /\ lmPc = [t \in Threads |-> "idle"]
  /\ lmName = [t \in Threads |-> None]
  /\ lmOldest = [t \in Threads |-> None]
  /\ lmWhisper = [t \in Threads |-> 0]
  /\ lmResult = [t \in Threads |-> NoResult]
  /\ lmBefore = [t \in Threads |-> [cache |-> <<>>, loads |-> 0]]
  /\ rehit = {}

SessionStart ==
  /\ mainPc = "start"
  /\ client_state = "CONNECTING"
  /\ propagated = None
  /\ mainCancelReq = FALSE
  /\ bodyExc = None
  /\ emitExit = None
  /\ tgErrors = {}
  /\ samples = 0
  /\ closed = FALSE
  /\ closeCount = 0
  /\ rcvPc = "none"
  /\ rcvOutcome = None
  /\ rcvCancelReq = FALSE
  /\ waited = 0
  /\ vadCalls = 0
  /\ timestamps = <<>>
  /\ unread = FALSE
  /\ produced = 0
  /\ sendCalls = 0
  /\ pending = NoMessage
  /\ sent = <<>>
  /\ handshakeSeen = None
  /\ closeHandshakes = 0
  /\ infoLog = {}
  /\ errLog = {}
  /\ raisedExc = {}
  /\ discDuringInfer = FALSE

\* the cache a session can find: empty, or full after earlier loads
NameOrder == <<"base", "small", "medium", "tiny">>

FullCache == [i \in 1..max_models |-> [name |-> NameOrder[i], handle |-> i]]

\* a session asks for a resident name, a non-resident one or an invalid one
SessionModels == {"base", "tiny", "bogus"}

Init ==
  /\ loaded_models \in {<<>>, FullCache}
  /\ nextHandle = Len(loaded_models)
  /\ IdleCallers
  /\ model \in SessionModels
  /\ response_format \in ResponseFormats
  /\ SessionStart

ChunkSizes == {1, SAMPLES_PER_SECOND}

Receive ==
  \E n \in ChunkSizes, decodable \in BOOLEAN, ts \in VadResults :
    RcvChunk(n, decodable, ts)

Next ==
  \/ Accept
  \/ WsLoadCall
  \/ WsLoad
  \/ WsLoaded
  \/ WsLoadFailed
  \/ Tick
  \/ Receive
  \/ RcvTimeout
  \/ RcvDisconnect
  \/ RcvCancelled
  \/ DriverInferStart
  \/ DriverEnd
  \/ InferYield
  \/ InferNoUpdate
  \/ InferFail
  \/ SendOk
  \/ SendDisconnect
  \/ BodyCancelled
  \/ TgExit
  \/ CloseOk
  \/ CloseFail

Spec == Init /\ [][Next]_vars

\* the event loop runs every ready task, timers fire, the engine and the
\* socket answer; the client is not obliged to send anything
MainStep ==
  \/ Accept
  \/ WsLoadCall
  \/ WsLoad
  \/ WsLoaded
  \/ WsLoadFailed
  \/ DriverInferStart
  \/ DriverEnd
  \/ InferYield
  \/ InferNoUpdate
  \/ InferFail
  \/ SendOk
  \/ SendDisconnect
  \/ BodyCancelled
  \/ TgExit
  \/ CloseOk
  \/ CloseFail

FairSpec ==
  /\ Spec
  /\ WF_vars(Tick)
  /\ WF_vars(RcvTimeout)
  /\ WF_vars(RcvCancelled)
  /\ WF_vars(MainStep)

CacheInit ==
  /\ loaded_models = <<>>
  /\ nextHandle = 0
  /\ IdleCallers
  /\ model = "tiny"
  /\ response_format = "text"
  /\ SessionStart

CacheNext ==
  \/ \E t \in HttpThreads, name \in ModelNames : HttpCall(t, name)
  \/ \E t \in HttpThreads : HttpLoad(t)
  \/ \E t \in HttpThreads : HttpDone(t)

CacheSpec == CacheInit /\ [][CacheNext]_vars

\* translate_file / transcribe_file are plain functions, so each request runs
\* on a worker thread: another call may begin while one is inside load_model
ConcCall(t, name) ==
  /\ LmCall(t, name)
  /\ UNCHANGED sessionVars

ConcNext ==
  \/ \E t \in HttpThreads, name \in ModelNames : ConcCall(t, name)
  \/ \E t \in HttpThreads : HttpLoad(t)
  \/ \E t \in HttpThreads : HttpDone(t)

ConcSpec == CacheInit /\ [][ConcNext]_vars

(* ------------------------------------------------------------------ C1 *)
\* C1: a session that created its audio buffer calls close() on it exactly
\* once by the time transcribe_stream returns, however the session ends:
\* never twice at any moment, and once when the coroutine is done.
C1_ClosedExactlyOnce ==
  /\ closeCount <= 1
  /\ (mainPc = "done" => closeCount = 1 /\ closed)

\* the receiver was cancelled, so the finally block closed the buffer
C1_Witness ==
  /\ mainPc = "done"
  /\ rcvOutcome = "cancelled"
  /\ closeCount = 1

(* ------------------------------------------------------------------ C2 *)
\* C2: when the wait for a chunk reaches max_no_data_seconds the receiver
\* accepts no chunk any more and ends only by the timeout (a wait that has
\* received nothing at all, so that no sibling failure can cancel it, always
\* ends by the timeout); a timeout appends nothing, closes the buffer, is
\* logged at info level, and the session then reaches its end.
C2_NoDataTimeout ==
  /\ [](rcvOutcome = "timeout" =>
          closed /\ closeCount = 1 /\ "No data received" \in infoLog)
  /\ [][(RcvWaiting /\ waited = max_no_data_seconds) =>
          /\ samples' = samples
          /\ (rcvPc' = "done" => rcvOutcome' = "timeout")]_vars
  /\ ((rcvPc = "waiting" /\ samples = 0 /\ waited = max_no_data_seconds)
        ~> (rcvOutcome = "timeout"))
  /\ ((rcvPc = "waiting" /\ waited = max_no_data_seconds) ~> (rcvPc = "done"))
  /\ ((rcvOutcome = "timeout") ~> (mainPc = "done"))

\* the client never sent a byte and the session ended by the timeout
C2_Witness ==
  /\ mainPc = "done"
  /\ rcvOutcome = "timeout"
  /\ samples = 0
  /\ closeCount = 1

(* ------------------------------------------------------------------ C3 *)
\* the claim's verdict on the last VAD result: no speech interval, or
\* W - (end of the last interval / R) >= max_inactivity_seconds
TrailingSilenceReached ==
  \/ Len(timestamps) = 0
  \/ inactivity_window_seconds * SAMPLES_PER_SECOND - timestamps[Len(timestamps)].end
       >= max_inactivity_seconds * SAMPLES_PER_SECOND

\* C3: after every detector evaluation the receiver has stopped with a
\* silence verdict exactly when the VAD found no interval or the trailing
\* silence is >= max_inactivity_seconds; otherwise the evaluation leaves the
\* receiver in its next receive.
C3_SilenceVerdict ==
  /\ [](vadCalls > 0 => (rcvOutcome = "silence" <=> TrailingSilenceReached))
  /\ [](vadCalls = 0 => rcvOutcome # "silence")
  /\ [][vadCalls' = vadCalls + 1 =>
          IF TrailingSilenceReached'
            THEN rcvPc' = "done" /\ rcvOutcome' = "silence"
            ELSE rcvPc' = "waiting" /\ waited' = 0]_vars

\* a silence verdict on the boundary: the last interval leaves exactly
\* max_inactivity_seconds of trailing silence
C3_Witness ==
  /\ rcvOutcome = "silence"
  /\ Len(timestamps) = 1
  /\ inactivity_window_seconds * SAMPLES_PER_SECOND - timestamps[Len(timestamps)].end
       = max_inactivity_seconds * SAMPLES_PER_SECOND

(* ------------------------------------------------------------------ C4 *)
\* C4: the VAD runs after an append exactly when the buffer's duration after
\* that append is >= inactivity_window_seconds, in the same step as the append
\* (before the next receive); below the window it has never run.
C4_VadOnlyOverWindow ==
  /\ [](samples < inactivity_window_seconds * SAMPLES_PER_SECOND => vadCalls = 0)
  /\ [][IF samples' # samples
          THEN vadCalls' = vadCalls +
                 (IF samples' >= inactivity_window_seconds * SAMPLES_PER_SECOND
                    THEN 1 ELSE 0)
          ELSE vadCalls' = vadCalls]_vars

\* the window filled exactly, and the VAD ran after that append and the next
C4_Witness ==
  /\ vadCalls = 2
  /\ samples = inactivity_window_seconds * SAMPLES_PER_SECOND + 1
  /\ rcvPc = "waiting"

(* ------------------------------------------------------------------ C5 *)
\* C5: once the connection is in the disconnected state no send is issued,
\* for the update at hand or any later one; an update produced then ends the
\* emit loop by break, without an exception in the body, from the TaskGroup
\* or out of transcribe_stream.
C5_NoSendWhenDisconnected ==
  /\ [][client_state = "DISCONNECTED" => sendCalls' = sendCalls]_vars
  /\ [][(client_state = "DISCONNECTED" /\ produced' # produced) =>
          emitExit' = "break" /\ mainPc' = "tg_exit"]_vars
  /\ [](emitExit = "break" =>
          /\ bodyExc = None
          /\ propagated = None
          /\ "An error occurred" \notin errLog)

\* the disconnect arrived during an inference cycle, whose update was not sent
C5_Witness ==
  /\ mainPc = "done"
  /\ emitExit = "break"
  /\ discDuringInfer
  /\ sendCalls < produced

(* ------------------------------------------------------------------ C6 *)
\* C6: the messages sent are, in order, the messages of updates 1, 2, ... in
\* the negotiated shape: one per update, none skipped, duplicated, batched or
\* reordered; while the loop is running every update before the current one
\* has been sent.
C6_SentIsPrefix ==
  /\ Len(sent) <= produced
  /\ \A i \in 1..Len(sent) : sent[i] = [shape |-> response_format, update |-> i]
  /\ (mainPc \in {"body_wait", "inferring"} => Len(sent) = produced)
  /\ (mainPc = "sending" =>
        /\ Len(sent) = produced - 1
        /\ pending = [shape |-> response_format, update |-> produced])
  /\ sendCalls <= produced

\* two updates were produced and sent as structured JSON
C6_Witness ==
  /\ Len(sent) >= 2
  /\ response_format = "json"

(* ------------------------------------------------------------------ C7 *)
ExpectedEnds == {"TimeoutError", "WebSocketDisconnect", "CancelledError"}

\* C7: a session in which nothing but a no-data timeout, a silence verdict or
\* a client disconnect occurred (in either activity) logs nothing at error level.
C7_ExpectedEndsNotErrors ==
  (mainPc = "done" /\ raisedExc \subseteq ExpectedEnds) => errLog = {}

(* ------------------------------------------------------------------ C8 *)
Unexpected == {"DecodeError", "InferenceError"}

\* C8: after an unexpected exception in either activity the teardown has
\* logged it at error level, the buffer is closed (once), the close handshake
\* was attempted exactly if the socket was not disconnected, and nothing
\* propagated out of transcribe_stream; a session that started streaming
\* never ends by an exception.
C8_UnexpectedHandled ==
  /\ ((mainPc \in {"closing", "done"} /\ raisedExc \cap Unexpected # {}) =>
        /\ "An error occurred" \in errLog
        /\ closed
        /\ closeCount = 1
        /\ propagated = None
        /\ (closeHandshakes = 1 <=> client_state # "DISCONNECTED"))
  /\ (mainPc = "raised" => rcvPc = "none")

\* a chunk could not be decoded; the session ended with the handshake
C8_Witness ==
  /\ mainPc = "done"
  /\ "DecodeError" \in raisedExc
  /\ closeHandshakes = 1

(* ------------------------------------------------------------------ C9 *)
\* C9: the close handshake is attempted at most once, and exactly when the
\* socket was not in the disconnected state at line 354.
C9_HandshakeGuarded ==
  /\ closeHandshakes <= 1
  /\ (handshakeSeen = None => closeHandshakes = 0)
  /\ (handshakeSeen # None =>
        (closeHandshakes = 1 <=> handshakeSeen # "DISCONNECTED"))
  /\ (closeHandshakes = 1 => client_state # "DISCONNECTED")

\* teardown found the socket disconnected and skipped the handshake
C9_Witness ==
  /\ mainPc = "done"
  /\ handshakeSeen = "DISCONNECTED"
  /\ closeHandshakes = 0

(* ----------------------------------------------------------------- C10 *)
\* C10: after every load_model call that completes (one call at a time,
\* max_models >= 1) the cache holds at most max_models entries, whatever the
\* requested names were (resident, non-resident, valid or rejected).
C10_CacheBounded ==
  \A t \in Threads :
    lmPc[t] \in {"ret", "raised"} => Len(loaded_models) <= max_models

\* a completed load that evicted an entry and left the cache full
C10_Witness ==
  \E t \in Threads :
    /\ lmPc[t] = "ret"
    /\ lmOldest[t] # None
    /\ Len(loaded_models) = max_models

(* --------------------------------------------------- the cache, per call *)
\* the call of caller t began with its name absent and the cache full
CapacityMiss(t) ==
  /\ ~Contains(lmBefore[t].cache, lmName[t])
  /\ Len(lmBefore[t].cache) = max_models

\* C11: a load of a new name into a full cache evicts exactly the entry that
\* was inserted first (not the least recently requested one) and appends the
\* new entry; every other entry stays, in order
C11_EvictsOldestInserted ==
  \A t \in Threads :
    (LmReturned(t) /\ CapacityMiss(t)) =>
      /\ lmOldest[t] = lmBefore[t].cache[1].name
      /\ \A i \in 1..Len(lmBefore[t].cache) :
            lmBefore[t].cache[1].handle <= lmBefore[t].cache[i].handle
      /\ loaded_models = Append(Tail(lmBefore[t].cache),
                                [name |-> lmName[t], handle |-> lmResult[t].handle])
      /\ Len(loaded_models) = max_models

\* the evicted entry had been requested again, the surviving one had not
C11_Witness ==
  \E t \in Threads :
    /\ LmReturned(t) /\ CapacityMiss(t)
    /\ lmOldest[t] \in rehit
    /\ lmBefore[t].cache[max_models].name \notin rehit
    /\ loaded_models[1] = lmBefore[t].cache[max_models]

\* C19: a call for a resident name returns the stored handle and leaves the
\* cache, its order and the number of engine loads as they were
C19_ResidentHit ==
  \A t \in Threads :
    (LmReturned(t) /\ Contains(lmBefore[t].cache, lmName[t])) =>
      /\ loaded_models = lmBefore[t].cache
      /\ lmResult[t] = Returned(
            lmBefore[t].cache[GetItem(lmBefore[t].cache, lmName[t])].handle)
      /\ nextHandle = lmBefore[t].loads
      /\ lmWhisper[t] = 0
      /\ lmOldest[t] = None

\* a hit on a full cache
C19_Witness ==
  \E t \in Threads :
    /\ LmReturned(t)
    /\ Contains(lmBefore[t].cache, lmName[t])
    /\ Len(lmBefore[t].cache) = max_models
    /\ lmResult[t].handle > 0

\* the engine refused the name of caller t
LoadFailed(t) == lmPc[t] = "raised" /\ lmResult[t].exc = "ModelLoadError"

\* C20 as stated: a failed load leaves the cache exactly as it was before the
\* call, also when the cache was full
C20_FailedLoadKeepsCache ==
  \A t \in Threads : LoadFailed(t) => loaded_models = lmBefore[t].cache

\* C18: concurrent load_model calls behave as if serialized: the cache never
\* holds more than max_models entries and no call finds the entry it chose to
\* evict already deleted by another call
C18_ConcurrentLoadsSafe ==
  /\ Len(loaded_models) <= max_models
  /\ \A t \in Threads : lmResult[t].exc # "KeyError"

(* ------------------------------------------------- the session's lifecycle *)
\* Accepting: lines 314-323, until the model is resolved and the buffer made
Accepting == mainPc \in {"start", "accepted", "loading"}

\* Streaming: lines 324-346, the TaskGroup block with both activities
Streaming == mainPc \in {"body_wait", "inferring", "sending", "tg_exit"}

\* teardown: the finally block has run its guards (lines 351-356); the close
\* handshake of line 357 is pending ("closing") or the coroutine has returned
Teardown == mainPc \in {"closing", "done"}

\* position of the session in Accepting < Streaming < Closing < Closed; a
\* session whose model load failed ends inside Accepting
SessionRank ==
  CASE Accepting -> 1
    [] mainPc = "raised" -> 1
    [] Streaming -> 2
    [] mainPc = "closing" -> 3
    [] mainPc = "done" -> 4

\* C12 as stated: a model load failure is a rejection at accept time: no
\* buffer and no activity exist yet, and the connection is not left accepted
\* and open without a close
C12_LoadFailureRejected ==
  "ModelLoadError" \in raisedExc =>
    /\ rcvPc = "none"
    /\ emitExit = None
    /\ samples = 0 /\ produced = 0
    /\ client_state = "CONNECTED" => closeHandshakes > 0

\* C13: no append happens after the buffer is closed: only the running
\* receiver appends, and the buffer is closed either by the step that ends the
\* receiver or after the receiver has ended
C13_NoAppendAfterClose ==
  /\ []("ClosedBufferError" \notin raisedExc)
  /\ [](closed => rcvPc = "done")
  /\ [][samples' # samples => (~closed /\ rcvPc = "waiting")]_vars
  /\ [][closeCount' # closeCount => rcvPc' = "done"]_vars

\* the receiver was cancelled after appending and teardown closed the buffer
C13_Witness ==
  /\ closed
  /\ samples > 0
  /\ rcvOutcome = "cancelled"

C16_ForwardOnly ==
  /\ [][SessionRank' >= SessionRank]_vars
  /\ [](Streaming => /\ lmResult[WsThread].handle > 0
                     /\ lmResult[WsThread].exc = None
                     /\ Contains(loaded_models, model)
                     /\ rcvPc # "none")
  /\ [](Teardown => (handshakeSeen # None /\ closed /\ closeCount = 1))
  /\ [][(mainPc # "done" /\ mainPc' = "done") =>
          \/ mainPc = "closing"
          \/ (mainPc = "tg_exit" /\ ~HandshakeNeeded(handshakeSeen'))]_vars
  /\ [][mainPc = "done" => mainPc' = "done"]_vars

\* a session that went through all four states and sent an update
C16_Witness ==
  /\ mainPc = "done"
  /\ closeHandshakes = 1
  /\ sendCalls > 0

\* C17: a failing close handshake is logged and swallowed: transcribe_stream
\* still returns normally, with the buffer closed once
C17_HandshakeFailureSwallowed ==
  "CloseHandshakeError" \in raisedExc =>
    /\ mainPc = "done"
    /\ propagated = None
    /\ closed /\ closeCount = 1
    /\ "Error during close handshake" \in errLog

\* ws.close raised after a session that streamed audio
C17_Witness ==
  /\ "CloseHandshakeError" \in raisedExc
  /\ mainPc = "done"
  /\ samples > 0

====
